---- MODULE Spec2Model ----
(***************************************************************************)
(* Clickstream Analyzer (ShopperInsights): the loader of utils.py, the     *)
(* three analytic passes main.py runs (analyze_clickstream,                *)
(* analyze_conversion_funnel, analyze_session_metrics) and the main script *)
(* that drives them.                                                       *)
(*                                                                         *)
(* A table (pandas DataFrame) is a record [is_none, columns, rows]: rows   *)
(* is the sequence of rows in original row order, each row a function from *)
(* column name to value.  A dict is a sequence of <<key, value>> pairs in  *)
(* insertion order.  A float is an exact rational [nan, num, den].         *)
(***************************************************************************)
EXTENDS Integers, Sequences, FiniteSets, TLC

VARIABLES uploaded_file, df, error, pc, calls,
          clickstream_analysis, funnel, session_metrics

vars == <<uploaded_file, df, error, pc, calls,
          clickstream_analysis, funnel, session_metrics>>

(***************************************************************************)
(* Bounds of the model.                                                    *)
(***************************************************************************)
MaxRowsMain == 2
MaxRowsFunnel == 3
MaxRowsSessions == 3
MaxRowsTransitions == 4
MaxRowsPasses == 2
MaxAbsent == 1
MaxExtra == 2
MaxCalls == 3

(***************************************************************************)
(* Python values.                                                          *)
(***************************************************************************)
None == "None"
NA == "<NA>"
NaN == [nan |-> TRUE, num |-> 0, den |-> 1]

Truthy(v) == v # None /\ v # ""

RECURSIVE Gcd(_, _)
Gcd(a, b) == IF b = 0 THEN a ELSE Gcd(b, a % b)

\* the float a / b, kept exact and in lowest terms (b > 0, a >= 0)
Float(a, b) ==
    LET g == Gcd(a, b)
    IN  [nan |-> FALSE, num |-> a \div g, den |-> b \div g]

NoneDf == [is_none |-> TRUE, columns |-> {}, rows |-> <<>>]

NotRun == [status |-> "not_run"]
Raised(e) == [status |-> "raised", exc |-> e]
Returned(v) == [status |-> "returned", value |-> v]

(***************************************************************************)
(* Sequence helpers standing for the pandas primitives the passes use.     *)
(***************************************************************************)
Range(s) == {s[i] : i \in DOMAIN s}

\* the sequence s with its elements computed once
AsTuple(s) == s \o <<>>

Column(rows, c) == AsTuple([i \in DOMAIN rows |-> rows[i][c]])

Column2(rows, c1, c2) ==
    AsTuple([i \in DOMAIN rows |-> <<rows[i][c1], rows[i][c2]>>])

\* Series.head(n) / DataFrame.head(n)
head(s, n) == IF Len(s) <= n THEN s ELSE SubSeq(s, 1, n)

\* the elements of s satisfying Keep, in their order in s
Filter(s, Keep(_)) ==
    LET F[i \in 0..Len(s)] ==
            IF i = 0 THEN <<>>
            ELSE IF Keep(s[i]) THEN Append(F[i - 1], s[i]) ELSE F[i - 1]
    IN  F[Len(s)]

\* pd.unique: the distinct values of s in order of first appearance
RECURSIVE unique(_)
unique(s) ==
    IF s = <<>> THEN <<>>
    ELSE LET front == unique(SubSeq(s, 1, Len(s) - 1))
             last  == s[Len(s)]
         IN  IF last \in Range(front) THEN front ELSE Append(front, last)

\* Series.nunique()
nunique(s) == Len(unique(s))

RECURSIVE Sum(_)
Sum(s) == IF s = <<>> THEN 0 ELSE s[1] + Sum(Tail(s))

\* Series.mean(): NaN on an empty series
mean(s) == IF Len(s) = 0 THEN NaN ELSE Float(Sum(s), Len(s))

Max(S) == CHOOSE x \in S : \A y \in S : y <= x
Min(S) == CHOOSE x \in S : \A y \in S : x <= y

\* order of two-part sort keys <<k1, k2>>
KeyLess(a, b) == a[1] < b[1] \/ (a[1] = b[1] /\ a[2] < b[2])

\* the index i put into perm, which is sorted by key, after every index whose
\* key is not greater
RECURSIVE InsertIndex(_, _, _)
InsertIndex(perm, i, keys) ==
    IF perm = <<>> THEN <<i>>
    ELSE IF KeyLess(keys[i], keys[perm[Len(perm)]])
         THEN Append(InsertIndex(SubSeq(perm, 1, Len(perm) - 1), i, keys),
                     perm[Len(perm)])
         ELSE Append(perm, i)

\* the indices 1..n in ascending order of their keys, ties in index order
RECURSIVE SortOrder(_, _)
SortOrder(keys, n) ==
    IF n = 0 THEN <<>> ELSE InsertIndex(SortOrder(keys, n - 1), n, keys)

Permute(s, perm) == AsTuple([k \in DOMAIN perm |-> s[perm[k]]])

\* stable sort of s by ascending keys (keys[i] is the key of s[i])
StableSort(s, keys) == Permute(s, SortOrder(keys, Len(s)))

\* Python's order of the strings the model uses as group keys
StrOrder == << "Add to Cart", "Books", "Cart", "Checkout", "Click", "Clothing",
               "Electronics", "Home", "Product", "Purchase", "S1", "S2", "S3",
               "Scroll", "View" >>

StrRank(s) == CHOOSE i \in DOMAIN StrOrder : StrOrder[i] = s

\* separator.join(s)
RECURSIVE join(_, _)
join(sep, s) ==
    IF s = <<>> THEN ""
    ELSE IF Len(s) = 1 THEN s[1]
         ELSE s[1] \o sep \o join(sep, Tail(s))

\* groupby(...).size() over the key sequence s: <<key, count>> for the keys
size_of_groups(s, keys) ==
    AsTuple([i \in DOMAIN keys |->
               <<keys[i], Cardinality({j \in DOMAIN s : s[j] = keys[i]})>>])

\* Series.value_counts(): <<value, count>> by descending count, ties in
\* order of first appearance
by_count_descending(counted) ==
    StableSort(counted, [i \in DOMAIN counted |-> <<0 - counted[i][2], 0>>])

value_counts(s) == by_count_descending(size_of_groups(s, unique(s)))

\* groupby(c): the group keys, sorted (sort=True is the default)
group_keys(rows, c) ==
    LET u == unique(Column(rows, c))
    IN  StableSort(u, [i \in DOMAIN u |-> <<StrRank(u[i]), 0>>])

\* the rows of one group, in original row order
group(rows, c, k) == Filter(rows, LAMBDA r : r[c] = k)

\* groupby([c1, c2]): the distinct key pairs of s, sorted
pair_keys(s) ==
    LET u == unique(s)
    IN  StableSort(u, [i \in DOMAIN u |-> <<StrRank(u[i][1]), StrRank(u[i][2])>>])

\* a dict built by inserting the <<key, value>> pairs of s in order: a key
\* seen again keeps its place and takes the new value
RECURSIVE to_dict(_)
to_dict(s) ==
    IF s = <<>> THEN <<>>
    ELSE LET n == Len(s)
             d == to_dict(SubSeq(s, 1, n - 1))
         IN  IF \E i \in DOMAIN d : d[i][1] = s[n][1]
             THEN [i \in DOMAIN d |-> IF d[i][1] = s[n][1] THEN s[n] ELSE d[i]]
             ELSE Append(d, s[n])

fdiv(a, b) == Float(a, b)
fmul(x, k) == Float(x.num * k, x.den)

(***************************************************************************)
(* The uploaded file and load_and_validate_data.                           *)
(***************************************************************************)
required_columns == {"User_ID", "Session_ID", "Timestamp", "Page_Type",
                     "Product_ID", "Category", "Action", "Device_Type",
                     "Platform"}

\* the timestamps of the model, as written in the file: the i-th is i - 1
\* seconds after the first
TimeStrings == << "2024-01-01 00:00:00", "2024-01-01 00:00:01",
                  "2024-01-01 00:00:02", "2024-01-01 00:00:03" >>
BadTime == "not-a-date"

parseable(t) == t \in Range(TimeStrings)

\* pd.to_datetime of one value, as seconds since the first timestamp
to_datetime(t) == (CHOOSE i \in DOMAIN TimeStrings : TimeStrings[i] = t) - 1

load_missing_no_message(file) ==
    IF file.parse_error # None
    THEN <<NoneDf, "Error loading data: " \o file.parse_error>>
    ELSE IF ~(required_columns \subseteq file.columns)
    THEN <<NoneDf, None>>
    ELSE IF \E i \in DOMAIN file.rows : ~parseable(file.rows[i]["Timestamp"])
    THEN <<NoneDf, "Error loading data: " \o "Unknown datetime string format">>
    ELSE <<[is_none |-> FALSE,
            columns |-> file.columns,
            rows    |-> [i \in DOMAIN file.rows |->
                          [file.rows[i] EXCEPT
                             !["Timestamp"] = to_datetime(@)]]],
           None>>

\* <<df, error>>
load_and_validate_data(file) ==
    IF file.parse_error # None
    THEN <<NoneDf, "Error loading data: " \o file.parse_error>>
    ELSE IF ~(required_columns \subseteq file.columns)
    THEN <<NoneDf, "Missing required columns in the clickstream data">>
    ELSE IF \E i \in DOMAIN file.rows : ~parseable(file.rows[i]["Timestamp"])
    THEN <<NoneDf, "Error loading data: " \o "Unknown datetime string format">>
    ELSE <<[is_none |-> FALSE,
            columns |-> file.columns,
            rows    |-> [i \in DOMAIN file.rows |->
                          [file.rows[i] EXCEPT
                             !["Timestamp"] = to_datetime(@)]]],
           None>>

(***************************************************************************)
(* analyze_conversion_funnel.                                              *)
(***************************************************************************)
stages == << "View", "Click", "Add to Cart", "Purchase" >>

\* df[df['Action'] == stage]['Session_ID'].size, counting events
stage_events(rows, stage) ==
    Len(Column(Filter(rows, LAMBDA r : r["Action"] = stage), "Session_ID"))

\* df[df['Action'] == stage]['Session_ID'].nunique()
stage_sessions(rows, stage) ==
    nunique(Column(Filter(rows, LAMBDA r : r["Action"] = stage), "Session_ID"))

\* the rates taken relative to the first stage, not to all sessions
funnel_relative_to_view(d) ==
    IF d.is_none THEN Raised("TypeError")
    ELSE
    LET views         == stage_sessions(d.rows, "View")
        funnel_stages == [i \in DOMAIN stages |->
                            <<stages[i], stage_sessions(d.rows, stages[i])>>]
    IN  IF views = 0
        THEN Raised("ZeroDivisionError")
        ELSE Returned([
               funnel_stages |-> funnel_stages,
               funnel_rates  |-> [i \in DOMAIN funnel_stages |->
                   <<funnel_stages[i][1],
                     fmul(fdiv(funnel_stages[i][2], views), 100)>>]])

analyze_conversion_funnel(d) ==
    IF d.is_none THEN Raised("TypeError")
    ELSE
    LET total_sessions == nunique(Column(d.rows, "Session_ID"))
        funnel_stages  == [i \in DOMAIN stages |->
                             <<stages[i], stage_sessions(d.rows, stages[i])>>]
    IN  IF total_sessions = 0
        THEN Raised("ZeroDivisionError")
        ELSE Returned([
               funnel_stages |-> funnel_stages,
               funnel_rates  |-> [i \in DOMAIN funnel_stages |->
                   <<funnel_stages[i][1],
                     fmul(fdiv(funnel_stages[i][2], total_sessions), 100)>>]])

(***************************************************************************)
(* analyze_clickstream.                                                    *)
(***************************************************************************)
\* the durations measured from the first timestamp of the table, not of the
\* session
session_stats_from_table_start(rows) ==
    LET sessions == group_keys(rows, "Session_ID")
    IN  [i \in DOMAIN sessions |->
          LET g  == group(rows, "Session_ID", sessions[i])
              ts == Range(Column(g, "Timestamp"))
          IN  [Session_ID       |-> sessions[i],
               duration_seconds |-> Max(ts) - Min(Range(Column(rows, "Timestamp"))),
               page_views       |-> Len(Column(g, "Page_Type")),
               unique_actions   |-> nunique(Column(g, "Action"))]]

\* df.groupby('Session_ID').agg({...}).rename(...): one row per session
session_stats(rows) ==
    LET sessions == group_keys(rows, "Session_ID")
    IN  [i \in DOMAIN sessions |->
          LET g  == group(rows, "Session_ID", sessions[i])
              ts == Range(Column(g, "Timestamp"))
          IN  [Session_ID       |-> sessions[i],
               duration_seconds |-> Max(ts) - Min(ts),
               page_views       |-> Len(Column(g, "Page_Type")),
               unique_actions   |-> nunique(Column(g, "Action"))]]

\* df.groupby('Session_ID')[c].agg(lambda x: '->'.join(x)): one key per session
sequence_keys(rows, c) ==
    LET sessions == group_keys(rows, "Session_ID")
    IN  [i \in DOMAIN sessions |->
          join("->", Column(group(rows, "Session_ID", sessions[i]), c))]

\* df['Page_Type'].shift(-1), with no grouping
ungrouped_next_page(rows) ==
    AsTuple([i \in DOMAIN rows |->
               IF i = Len(rows) THEN NA ELSE rows[i + 1]["Page_Type"]])

\* df.groupby('Session_ID')['Page_Type'].shift(-1), aligned to the rows
next_page(rows) ==
    AsTuple([i \in DOMAIN rows |->
       LET pages   == Column(group(rows, "Session_ID", rows[i]["Session_ID"]),
                             "Page_Type")
           shifted == Tail(pages) \o <<NA>>
           at      == Cardinality({j \in 1..i :
                         rows[j]["Session_ID"] = rows[i]["Session_ID"]})
       IN  shifted[at]])

\* the table after df['next_page'] = ...
with_next_page(d) ==
    LET np == next_page(d.rows)
    IN  [is_none |-> FALSE,
         columns |-> d.columns \cup {"next_page"},
         rows    |-> [i \in DOMAIN d.rows |->
                       [c \in d.columns \cup {"next_page"} |->
                          IF c = "next_page" THEN np[i] ELSE d.rows[i][c]]]]

\* the <<Page_Type, next_page>> of the rows whose next_page is not NaN
page_pairs(rows, np) ==
    Filter(AsTuple([i \in DOMAIN rows |-> <<rows[i]["Page_Type"], np[i]>>]),
           LAMBDA pr : pr[2] # NA)

\* df[df['next_page'].notna()].groupby(['Page_Type', 'next_page']).size():
\* <<<<page, next>>, count>> in the order of the group keys
pair_counts(kept) == size_of_groups(kept, pair_keys(kept))

transitions(rows) == pair_counts(page_pairs(rows, next_page(rows)))

\* transitions.head(10)
top_transitions(rows) == head(transitions(rows), 10)

\* the <<Category, Page_Type>> of the Click events
click_pairs(rows) ==
    Column2(Filter(rows, LAMBDA r : r["Action"] = "Click"),
            "Category", "Page_Type")

\* click_counts before it is sorted: one row per (Category, Page_Type) of the
\* Click events, in the order of the group keys
click_rows(sized) ==
    AsTuple([i \in DOMAIN sized |->
       [Category       |-> sized[i][1][1],
        Page_Type      |-> sized[i][1][2],
        clicks         |-> sized[i][2],
        is_electronics |-> sized[i][1][1] = "Electronics"]])

click_groups(rows) == click_rows(pair_counts(click_pairs(rows)))

\* click_counts.sort_values('clicks', ascending=False).head(10)
click_counts_by_clicks_only(rows) ==
    LET g == click_groups(rows)
    IN  head(StableSort(g, [i \in DOMAIN g |-> <<0, 0 - g[i].clicks>>]), 10)

\* click_counts.sort_values(['is_electronics', 'clicks'],
\*                          ascending=[False, False]).head(10)
click_counts(rows) ==
    LET g == click_groups(rows)
    IN  head(StableSort(g, [i \in DOMAIN g |->
                              <<IF g[i].is_electronics THEN 0 ELSE 1,
                                0 - g[i].clicks>>]),
             10)

click_patterns(rows) ==
    LET cc == click_counts(rows)
    IN  to_dict([i \in DOMAIN cc |->
                   <<cc[i].Category \o " - " \o cc[i].Page_Type, cc[i].clicks>>])

analyze_clickstream(d) ==
    IF d.is_none THEN Raised("TypeError")
    ELSE
    LET stats == session_stats(d.rows)
    IN  Returned([
          avg_session_duration |->
              mean([i \in DOMAIN stats |-> stats[i].duration_seconds]),
          avg_page_views |->
              mean([i \in DOMAIN stats |-> stats[i].page_views]),
          common_paths |->
              head(value_counts(sequence_keys(d.rows, "Page_Type")), 10),
          action_sequences |->
              head(value_counts(sequence_keys(d.rows, "Action")), 10),
          top_transitions |-> top_transitions(d.rows),
          click_patterns  |-> click_patterns(d.rows)])

\* the table analyze_clickstream leaves behind, with the last row of every
\* session dropped in place: df = df[df['next_page'].notna()]
after_analyze_clickstream_dropping(d) ==
    IF d.is_none THEN d
    ELSE LET w == with_next_page(d)
         IN  [w EXCEPT !.rows = Filter(w.rows, LAMBDA r : r["next_page"] # NA)]

\* the table analyze_clickstream leaves behind
after_analyze_clickstream(d) ==
    IF d.is_none THEN d ELSE with_next_page(d)

(***************************************************************************)
(* analyze_session_metrics.                                                *)
(***************************************************************************)
\* df.groupby('Session_ID')['Page_Type'].last()
exit_page_of_sessions(rows) ==
    LET sessions == group_keys(rows, "Session_ID")
    IN  [i \in DOMAIN sessions |->
          LET pages == Column(group(rows, "Session_ID", sessions[i]), "Page_Type")
          IN  pages[Len(pages)]]

\* df.groupby('Session_ID')['Page_Type'].first()
entry_page_of_sessions(rows) ==
    LET sessions == group_keys(rows, "Session_ID")
    IN  [i \in DOMAIN sessions |->
          Column(group(rows, "Session_ID", sessions[i]), "Page_Type")[1]]

\* df.groupby('Session_ID').size()
size_of_sessions(rows) ==
    LET sessions == group_keys(rows, "Session_ID")
    IN  [i \in DOMAIN sessions |-> Len(group(rows, "Session_ID", sessions[i]))]

\* df.groupby('Page_Type').agg({'Timestamp': max - min}).mean()
time_on_page(rows) ==
    LET pages == group_keys(rows, "Page_Type")
    IN  mean([i \in DOMAIN pages |->
                LET ts == Range(Column(group(rows, "Page_Type", pages[i]),
                                       "Timestamp"))
                IN  Max(ts) - Min(ts)])

analyze_session_metrics(d) ==
    IF d.is_none THEN Raised("TypeError")
    ELSE Returned([
          avg_time_by_page   |-> << <<"Timestamp", time_on_page(d.rows)>> >>,
          top_entry_pages    |-> head(value_counts(entry_page_of_sessions(d.rows)), 5),
          top_exit_pages     |-> head(value_counts(exit_page_of_sessions(d.rows)), 5),
          depth_distribution |-> head(value_counts(size_of_sessions(d.rows)), 10)])

(***************************************************************************)
(* The uploaded files the specifications start from.                       *)
(***************************************************************************)
T(i) == TimeStrings[i + 1]

Event(s, t, p, c, a) ==
    [User_ID     |-> "U1",     Session_ID |-> s,   Timestamp   |-> t,
     Page_Type   |-> p,        Product_ID |-> "P1", Category   |-> c,
     Action      |-> a,        Device_Type |-> "Mobile", Platform |-> "Web"]

\* the tables of at most n rows, each row from R
Tables(R, n) == UNION {[1..k -> R] : k \in 0..n}

\* a well-formed CSV file with the columns cols
CsvFile(cols, rows) ==
    [parse_error |-> None,
     columns     |-> cols,
     rows        |-> [i \in DOMAIN rows |->
                       [c \in cols |-> IF c \in DOMAIN rows[i]
                                       THEN rows[i][c] ELSE "-"]]]

\* files pd.read_csv cannot parse, with the message of its exception
BrokenFiles ==
    {[parse_error |-> m, columns |-> {}, rows |-> <<>>] :
        m \in {"No columns to parse from file", "Error tokenizing data"}}

ColumnSets ==
    {required_columns, required_columns \cup {"Referrer"}}
        \cup {required_columns \ {c} : c \in required_columns}

FilesMain ==
    BrokenFiles \cup
    {CsvFile(cols, rows) :
        cols \in ColumnSets,
        rows \in Tables({Event(s, t, "Home", "Electronics", a) :
                            s \in {"S1", "S2"},
                            t \in {T(0), T(1), BadTime},
                            a \in {"View", "Purchase"}},
                        MaxRowsMain)}

FilesFunnel ==
    {CsvFile(required_columns, rows) :
        rows \in Tables({Event(s, T(0), "Home", "Books", a) :
                            s \in {"S1", "S2", "S3"},
                            a \in {"View", "Click", "Add to Cart", "Purchase"}},
                        MaxRowsFunnel)}

FilesSessions ==
    {CsvFile(required_columns, rows) :
        rows \in Tables({Event(s, t, p, "Books", "View") :
                            s \in {"S1", "S2"},
                            t \in {T(0), T(3)},
                            p \in {"Home", "Product"}},
                        MaxRowsSessions)}

FilesTransitions ==
    {CsvFile(required_columns, rows) :
        rows \in Tables({Event(s, T(0), p, "Books", "View") :
                            s \in {"S1", "S2"},
                            p \in {"Home", "Product", "Cart"}},
                        MaxRowsTransitions)}

\* row i carries the i-th timestamp
FilesPasses ==
    {CsvFile(required_columns,
             [i \in DOMAIN rows |-> [rows[i] EXCEPT !.Timestamp = T(i)]]) :
        rows \in Tables({Event(s, T(0), p, "Electronics", a) :
                            s \in {"S1", "S2"},
                            p \in {"Home", "Product"},
                            a \in {"View", "Click"}},
                        MaxRowsPasses)}

\* the twelve (Category, Page_Type) groups, in the order their rows are laid
\* out in the large tables
GroupOrder ==
    << <<"Electronics", "Home">>,   <<"Books", "Home">>,
       <<"Electronics", "Product">>, <<"Books", "Product">>,
       <<"Electronics", "Cart">>,   <<"Books", "Cart">>,
       <<"Electronics", "Checkout">>, <<"Books", "Checkout">>,
       <<"Clothing", "Home">>,      <<"Clothing", "Cart">>,
       <<"Clothing", "Product">>,   <<"Clothing", "Checkout">> >>

RECURSIVE Flatten(_)
Flatten(ss) == IF ss = <<>> THEN <<>> ELSE ss[1] \o Flatten(Tail(ss))

\* one session visiting the groups in order: a group of absent is viewed and
\* never clicked, every other group is clicked once or twice (two groups
\* once, the next two twice, and so on) and the group heavy (0: none) extra
\* times more.  absent is a few groups, or the first k groups.
TopTable(absent, heavy, extra) ==
    Flatten([i \in DOMAIN GroupOrder |->
        LET g == GroupOrder[i]
            n == 1 + ((i \div 2) % 2) + (IF i = heavy THEN extra ELSE 0)
        IN  IF i \in absent
            THEN << Event("S1", T(0), g[2], g[1], "View") >>
            ELSE [k \in 1..n |-> Event("S1", T(0), g[2], g[1], "Click")]])

FilesTop ==
    {CsvFile(required_columns, TopTable(absent, hx[1], hx[2])) :
        absent \in {a \in SUBSET DOMAIN GroupOrder : Cardinality(a) <= MaxAbsent}
                       \cup {1..k : k \in DOMAIN GroupOrder},
        hx \in {<<0, 0>>} \cup ((DOMAIN GroupOrder) \X (1..MaxExtra))}

(***************************************************************************)
(* The steps of the program.                                               *)
(***************************************************************************)
InitWith(files) ==
    /\ uploaded_file \in files
    /\ df = NoneDf
    /\ error = None
    /\ pc = "upload"
    /\ calls = <<>>
    /\ clickstream_analysis = NotRun
    /\ funnel = NotRun
    /\ session_metrics = NotRun

\* main.py 51: df, error = load_and_validate_data(uploaded_file)
Load ==
    /\ pc = "upload"
    /\ LET r == load_and_validate_data(uploaded_file)
       IN  df' = r[1] /\ error' = r[2]
    /\ pc' = "loaded"
    /\ UNCHANGED <<uploaded_file, calls, clickstream_analysis, funnel,
                   session_metrics>>

\* main.py 53-54: if error: st.error(error)
ShowError ==
    /\ pc = "loaded"
    /\ Truthy(error)
    /\ pc' = "error_shown"
    /\ UNCHANGED <<uploaded_file, df, error, calls, clickstream_analysis,
                   funnel, session_metrics>>

\* a call of analyze_clickstream(df): its result, and the table it leaves
RunClickstream ==
    /\ clickstream_analysis' = analyze_clickstream(df)
    /\ df' = after_analyze_clickstream(df)
    /\ calls' = Append(calls, "analyze_clickstream")
    /\ UNCHANGED <<uploaded_file, error, funnel, session_metrics>>

RunFunnel ==
    /\ funnel' = analyze_conversion_funnel(df)
    /\ calls' = Append(calls, "analyze_conversion_funnel")
    /\ UNCHANGED <<uploaded_file, df, error, clickstream_analysis,
                   session_metrics>>

RunSessionMetrics ==
    /\ session_metrics' = analyze_session_metrics(df)
    /\ calls' = Append(calls, "analyze_session_metrics")
    /\ UNCHANGED <<uploaded_file, df, error, clickstream_analysis, funnel>>

\* where the script goes after a call: an exception ends it
After(result, then) == IF result.status = "raised" THEN "crashed" ELSE then

\* main.py 55-59: the three passes, in the script's order
MainAnalyzeClickstream ==
    /\ pc = "loaded"
    /\ ~Truthy(error)
    /\ RunClickstream
    /\ pc' = After(clickstream_analysis', "clickstream_done")

MainAnalyzeFunnel ==
    /\ pc = "clickstream_done"
    /\ RunFunnel
    /\ pc' = After(funnel', "funnel_done")

MainAnalyzeSessionMetrics ==
    /\ pc = "funnel_done"
    /\ RunSessionMetrics
    /\ pc' = After(session_metrics', "analysed")

\* main.py 61-166: the charts, which read the three results
Render ==
    /\ pc = "analysed"
    /\ pc' = "rendered"
    /\ UNCHANGED <<uploaded_file, df, error, calls, clickstream_analysis,
                   funnel, session_metrics>>

Next ==
    \/ Load
    \/ ShowError
    \/ MainAnalyzeClickstream
    \/ MainAnalyzeFunnel
    \/ MainAnalyzeSessionMetrics
    \/ Render

Init == InitWith(FilesMain)

Spec == Init /\ [][Next]_vars

(***************************************************************************)
(* The passes called directly on a validated table, in any order and any   *)
(* number of times (at most MaxCalls calls in the model).  A pass that     *)
(* raises leaves the caller with the table.                                *)
(***************************************************************************)
Callable == pc = "loaded" /\ ~df.is_none /\ Len(calls) < MaxCalls

CallClickstream == Callable /\ RunClickstream /\ pc' = pc

CallFunnel == Callable /\ RunFunnel /\ pc' = pc

CallSessionMetrics == Callable /\ RunSessionMetrics /\ pc' = pc

InitFunnel == InitWith(FilesFunnel)
NextFunnel == Load \/ CallFunnel
SpecFunnel == InitFunnel /\ [][NextFunnel]_vars

InitSessions == InitWith(FilesSessions)
NextSessions == Load \/ CallClickstream \/ CallSessionMetrics
SpecSessions == InitSessions /\ [][NextSessions]_vars

InitTransitions == InitWith(FilesTransitions)
NextTransitions == Load \/ CallClickstream
SpecTransitions == InitTransitions /\ [][NextTransitions]_vars

InitPasses == InitWith(FilesPasses)
NextPasses == Load \/ CallClickstream \/ CallFunnel \/ CallSessionMetrics
SpecPasses == InitPasses /\ [][NextPasses]_vars

InitTop == InitWith(FilesTop)
NextTop == Load \/ CallClickstream
SpecTop == InitTop /\ [][NextTop]_vars

(***************************************************************************)
(* The claims.  They are stated over the uploaded file, whose rows are the *)
(* events as written, and the results the program holds.                   *)
(***************************************************************************)
FileRows == uploaded_file.rows

FileSessions == {FileRows[i]["Session_ID"] : i \in DOMAIN FileRows}

\* the events of session s, as positions in the file
EventsOf(s) == {i \in DOMAIN FileRows : FileRows[i]["Session_ID"] = s}

\* the sessions with at least one event whose Action is a
SessionsWith(a) ==
    {s \in FileSessions : \E i \in EventsOf(s) : FileRows[i]["Action"] = a}

\* C1: for every funnel stage, analyze_conversion_funnel reports the number of
\* distinct sessions with at least one event of that Action, and as the rate
\* that count divided by the number of distinct sessions, times 100 (with no
\* session at all, the division is by zero and raises).
C1_FunnelCountsSessions ==
    funnel.status # "not_run" =>
        IF FileSessions = {}
        THEN funnel = Raised("ZeroDivisionError")
        ELSE /\ funnel.status = "returned"
             /\ \A i \in DOMAIN stages :
                   LET count == Cardinality(SessionsWith(stages[i]))
                       rate  == funnel.value.funnel_rates[i][2]
                   IN  /\ funnel.value.funnel_stages[i] = <<stages[i], count>>
                       /\ funnel.value.funnel_rates[i][1] = stages[i]
                       /\ ~rate.nan
                       /\ rate.num * Cardinality(FileSessions)
                             = count * 100 * rate.den

\* one Purchase event in one of two sessions, the other session holding two
\* View events: Purchase is 1 and 50.0, View is 1
C1_Witness ==
    /\ funnel.status = "returned"
    /\ Cardinality(FileSessions) = 2
    /\ Cardinality({i \in DOMAIN FileRows : FileRows[i]["Action"] = "Purchase"}) = 1
    /\ \E s \in FileSessions :
          Cardinality({i \in EventsOf(s) : FileRows[i]["Action"] = "View"}) = 2
    /\ funnel.value.funnel_stages[4] = <<"Purchase", 1>>
    /\ funnel.value.funnel_rates[4] = <<"Purchase", [nan |-> FALSE, num |-> 50, den |-> 1]>>
    /\ funnel.value.funnel_stages[1] = <<"View", 1>>

\* C2: every stage count analyze_conversion_funnel returns is at most the
\* number of distinct sessions and every rate lies in [0, 100]; a table whose
\* sessions skip stages is analysed like any other, not rejected.
C2_FunnelBounds ==
    /\ funnel.status = "returned" =>
          \A i \in DOMAIN stages :
             LET rate == funnel.value.funnel_rates[i][2]
             IN  /\ funnel.value.funnel_stages[i][2] <= Cardinality(FileSessions)
                 /\ ~rate.nan
                 /\ 0 <= rate.num
                 /\ rate.num <= 100 * rate.den
    /\ (funnel.status # "not_run" /\ FileSessions # {}) =>
          funnel.status = "returned"

\* a session with a Purchase and no Click, and no View anywhere
C2_Witness ==
    /\ funnel.status = "returned"
    /\ SessionsWith("Purchase") \ SessionsWith("Click") # {}
    /\ SessionsWith("View") = {}

\* what the loader must refuse: a file that does not parse, lacks a required
\* column or holds a Timestamp that is no timestamp
FileInvalid ==
    \/ uploaded_file.parse_error # None
    \/ ~(required_columns \subseteq uploaded_file.columns)
    \/ \E i \in DOMAIN FileRows : ~parseable(FileRows[i]["Timestamp"])

NoPassRan ==
    /\ calls = <<>>
    /\ clickstream_analysis.status = "not_run"
    /\ funnel.status = "not_run"
    /\ session_metrics.status = "not_run"

LoadedTable == load_and_validate_data(uploaded_file)[1]

\* C5: after an analytic pass returns, the event table passed in has the same
\* columns and the same rows as before the call.
C5_PassesReadOnly ==
    (~NoPassRan /\ ~df.is_none) =>
        /\ df.columns = LoadedTable.columns
        /\ df.rows = LoadedTable.rows

ExplicitFailure(r) ==
    r.status = "raised" /\ r.exc = "InsufficientDataError"

WellFormedClickstream ==
    /\ clickstream_analysis.status = "returned"
    /\ ~clickstream_analysis.value.avg_session_duration.nan
    /\ ~clickstream_analysis.value.avg_page_views.nan

WellFormedFunnel ==
    /\ funnel.status = "returned"
    /\ \A i \in DOMAIN stages : ~funnel.value.funnel_rates[i][2].nan

WellFormedSessionMetrics ==
    /\ session_metrics.status = "returned"
    /\ ~session_metrics.value.avg_time_by_page[1][2].nan

\* C3: on a table of zero rows every pass the program runs follows one policy:
\* all fail with the insufficient-data error, or all return well-formed
\* mappings; none divides by zero or returns a not-a-number value.
C3_ZeroRowsOnePolicy ==
    (~FileInvalid /\ FileRows = <<>>) =>
        \/ /\ clickstream_analysis.status # "not_run"
                => ExplicitFailure(clickstream_analysis)
           /\ funnel.status # "not_run" => ExplicitFailure(funnel)
           /\ session_metrics.status # "not_run"
                => ExplicitFailure(session_metrics)
        \/ /\ clickstream_analysis.status # "not_run" => WellFormedClickstream
           /\ funnel.status # "not_run" => WellFormedFunnel
           /\ session_metrics.status # "not_run" => WellFormedSessionMetrics

\* the position of session s among the sessions, as groupby orders them
SessionIndex(rows, s) ==
    CHOOSE k \in DOMAIN group_keys(rows, "Session_ID") :
        group_keys(rows, "Session_ID")[k] = s

SingleEventSessions == {s \in FileSessions : Cardinality(EventsOf(s)) = 1}

\* C7: a session of a single event has duration_seconds 0 and page_views 1, and
\* its entry page and its exit page are that event's Page_Type; so a table of
\* single-event sessions only has average duration 0, average page views 1,
\* the same entry-page and exit-page counts, and depth 1 for every session.
C7_SingleEventSession ==
    /\ (pc = "loaded" /\ ~df.is_none) =>
          \A s \in SingleEventSessions :
             LET i == CHOOSE e \in EventsOf(s) : TRUE
                 k == SessionIndex(df.rows, s)
             IN  /\ session_stats(df.rows)[k].Session_ID = s
                 /\ session_stats(df.rows)[k].duration_seconds = 0
                 /\ session_stats(df.rows)[k].page_views = 1
                 /\ entry_page_of_sessions(df.rows)[k] = FileRows[i]["Page_Type"]
                 /\ exit_page_of_sessions(df.rows)[k] = FileRows[i]["Page_Type"]
                 /\ size_of_sessions(df.rows)[k] = 1
    /\ (SingleEventSessions = FileSessions /\ FileSessions # {}) =>
          /\ clickstream_analysis.status # "not_run" =>
                /\ clickstream_analysis.status = "returned"
                /\ clickstream_analysis.value.avg_session_duration
                      = [nan |-> FALSE, num |-> 0, den |-> 1]
                /\ clickstream_analysis.value.avg_page_views
                      = [nan |-> FALSE, num |-> 1, den |-> 1]
          /\ session_metrics.status # "not_run" =>
                /\ session_metrics.status = "returned"
                /\ session_metrics.value.top_entry_pages
                      = session_metrics.value.top_exit_pages
                /\ session_metrics.value.depth_distribution
                      = << <<1, Cardinality(FileSessions)>> >>

\* two single-event sessions, the second one later than the first, both
\* passes run
C7_Witness ==
    /\ Cardinality(FileSessions) = 2
    /\ SingleEventSessions = FileSessions
    /\ FileRows[1]["Timestamp"] = T(0)
    /\ FileRows[2]["Timestamp"] = T(3)
    /\ FileRows[1]["Page_Type"] # FileRows[2]["Page_Type"]
    /\ clickstream_analysis.status = "returned"
    /\ session_metrics.status = "returned"

Pages == {FileRows[i]["Page_Type"] : i \in DOMAIN FileRows}

\* the event that follows event i in its session, in row order (0: none)
NextEvent(i) ==
    LET later == {j \in EventsOf(FileRows[i]["Session_ID"]) : j > i}
    IN  IF later = {} THEN 0 ELSE Min(later)

\* the positions i whose event has page p and whose next event in the same
\* session has page q
Adjacent(p, q) ==
    {i \in DOMAIN FileRows :
        /\ NextEvent(i) # 0
        /\ FileRows[i]["Page_Type"] = p
        /\ FileRows[NextEvent(i)]["Page_Type"] = q}

\* d[key] of a dict, 0 when the key is absent
Lookup(d, key) ==
    IF \E i \in DOMAIN d : d[i][1] = key
    THEN (d[CHOOSE i \in DOMAIN d : d[i][1] = key])[2]
    ELSE 0

UniqueKeys(d) == \A i, j \in DOMAIN d : d[i][1] = d[j][1] => i = j

\* C8: the transition count of (p, q) is the number of events with page p whose
\* next event of the same session, in row order, has page q; the last event of
\* a session is paired with nothing.
C8_TransitionsWithinSession ==
    clickstream_analysis.status # "not_run" =>
        /\ clickstream_analysis.status = "returned"
        /\ UniqueKeys(clickstream_analysis.value.top_transitions)
        /\ \A i \in DOMAIN clickstream_analysis.value.top_transitions :
              clickstream_analysis.value.top_transitions[i][2] > 0
        /\ \A p \in Pages : \A q \in Pages :
              Lookup(clickstream_analysis.value.top_transitions, <<p, q>>)
                 = Cardinality(Adjacent(p, q))

\* two interleaved sessions: S1 Home, S2 Cart, S1 Product, S2 Home
C8_Witness ==
    /\ clickstream_analysis.status = "returned"
    /\ Len(FileRows) = 4
    /\ [i \in 1..4 |-> FileRows[i]["Session_ID"]] = <<"S1", "S2", "S1", "S2">>
    /\ [i \in 1..4 |-> FileRows[i]["Page_Type"]]
          = <<"Home", "Cart", "Product", "Home">>
    /\ clickstream_analysis.value.top_transitions
          = << <<<<"Cart", "Home">>, 1>>, <<<<"Home", "Product">>, 1>> >>

\* C10: whatever passes ran before it on the table, every call of a pass
\* returns what that pass returns on the table as loaded.
C10_OutputsIndependentOfOrder ==
    /\ clickstream_analysis.status # "not_run" =>
          clickstream_analysis = analyze_clickstream(LoadedTable)
    /\ funnel.status # "not_run" =>
          funnel = analyze_conversion_funnel(LoadedTable)
    /\ session_metrics.status # "not_run" =>
          session_metrics = analyze_session_metrics(LoadedTable)

\* analyze_clickstream, then analyze_session_metrics, then analyze_clickstream
\* again, on two sessions of which one has two events
C10_Witness ==
    /\ calls = <<"analyze_clickstream", "analyze_session_metrics",
                 "analyze_clickstream">>
    /\ Len(FileRows) = 2
    /\ Cardinality(FileSessions) = 1
    /\ df # LoadedTable
    /\ clickstream_analysis.status = "returned"
    /\ session_metrics.status = "returned"

\* the (Category, Page_Type) groups of the Click events, and their clicks
ClickGroups ==
    {<<FileRows[i]["Category"], FileRows[i]["Page_Type"]>> :
        i \in {j \in DOMAIN FileRows : FileRows[j]["Action"] = "Click"}}

ClicksOf(g) ==
    Cardinality({i \in DOMAIN FileRows :
                    /\ FileRows[i]["Action"] = "Click"
                    /\ FileRows[i]["Category"] = g[1]
                    /\ FileRows[i]["Page_Type"] = g[2]})

LabelOf(g) == g[1] \o " - " \o g[2]

IsElectronics(g) == g[1] = "Electronics"

\* group a belongs strictly before group b in click_patterns
Precedes(a, b) ==
    \/ (IsElectronics(a) /\ ~IsElectronics(b))
    \/ (IsElectronics(a) = IsElectronics(b) /\ ClicksOf(a) > ClicksOf(b))

\* the group an entry of click_patterns stands for
GroupOfLabel(label) == CHOOSE g \in ClickGroups : LabelOf(g) = label

\* C6: click_patterns holds groups of Click events with their click counts,
\* every Electronics group before every other group, descending clicks within
\* the Electronics part and within the rest, and at most 10 groups, taken from
\* the front of that order.
C6_ClickPatternsOrder ==
    clickstream_analysis.status # "not_run" =>
        /\ clickstream_analysis.status = "returned"
        /\ LET out == clickstream_analysis.value.click_patterns
           IN  /\ Len(out) <= 10
               /\ Len(out) = IF Cardinality(ClickGroups) < 10
                             THEN Cardinality(ClickGroups) ELSE 10
               /\ UniqueKeys(out)
               /\ \A i \in DOMAIN out :
                     /\ \E g \in ClickGroups : LabelOf(g) = out[i][1]
                     /\ out[i][2] = ClicksOf(GroupOfLabel(out[i][1]))
               /\ \A i \in DOMAIN out : \A j \in DOMAIN out :
                     i < j => ~Precedes(GroupOfLabel(out[j][1]),
                                        GroupOfLabel(out[i][1]))
               /\ \A g \in ClickGroups :
                     (\A i \in DOMAIN out : out[i][1] # LabelOf(g)) =>
                        \A i \in DOMAIN out :
                           ~Precedes(g, GroupOfLabel(out[i][1]))

\* more than 10 groups, of which a Books group has the most clicks: it is kept
\* behind all four Electronics groups, and a group is left out
C6_Witness ==
    /\ clickstream_analysis.status = "returned"
    /\ Cardinality(ClickGroups) > 10
    /\ \A g \in ClickGroups : ClicksOf(g) <= ClicksOf(<<"Books", "Cart">>)
    /\ ClicksOf(<<"Books", "Cart">>) > ClicksOf(<<"Electronics", "Home">>)
    /\ Len(clickstream_analysis.value.click_patterns) = 10
    /\ \A i \in 1..4 :
          IsElectronics(GroupOfLabel(clickstream_analysis.value.click_patterns[i][1]))
    /\ clickstream_analysis.value.click_patterns[5][1] = "Books - Cart"

\* the (Page_Type, next page) pairs that occur
TransitionPairs == {pq \in Pages \X Pages : Adjacent(pq[1], pq[2]) # {}}

\* C9: top_transitions holds at most 10 entries, and when more than 10 pairs
\* occur every pair left out has a count no greater than every pair kept.
C9_TopTransitionsByCount ==
    clickstream_analysis.status = "returned" =>
        LET out == clickstream_analysis.value.top_transitions
        IN  /\ Len(out) <= 10
            /\ \A pq \in TransitionPairs :
                  (\A i \in DOMAIN out : out[i][1] # pq) =>
                     \A i \in DOMAIN out :
                        Cardinality(Adjacent(pq[1], pq[2])) <= out[i][2]
====
